---- MODULE Spec2Model ----
(***************************************************************************)
(* The Workiz -> Google Sheets sync handler (api/sync.js and its variants) *)
(* as a state machine.  One request is followed from the method check to   *)
(* the response; every await on an external call (Google auth, the Workiz  *)
(* job list, the Sheets values.get / values.batchUpdate / values.append    *)
(* calls, the backoff timer) is a step whose outcome the environment       *)
(* chooses.                                                                *)
(***************************************************************************)
EXTENDS Integers, Sequences, FiniteSets, TLC

\* ------------------------------------------------------------------ bounds

\* Longest job list the remote API answers with.
MaxJobs == 2
\* Most data rows (row 2 onwards) the sheet holds before the request.
MaxRows == 2
\* Most external calls the environment lets fail during one request.
MaxFaults == 7

\* --------------------------------------------------------- program constants

\* handleQuotaBackoff: const maxRetries = 5
maxRetries == 5

\* fetchJobs: params.records = 100, the page size asked of the job list.
records == 100

\* ------------------------------------------------------------ JS values

\* A missing property (undefined) or null.
Null == "<null>"

\* The number 7 as a job field value (SerialId is numeric in the API).
Num7 == "<number 7>"

\* JS truthiness of a string / number / null value: null, undefined and ""
\* are falsy.
Truthy(v) == v # Null /\ v # ""

\* val != null ? String(val) : ""
JsString(val) ==
  CASE val = Null -> ""
    [] val = Num7 -> "7"
    [] OTHER -> val

\* String.prototype.toLowerCase on the source names of the model.
toLowerCase(s) ==
  CASE s = "Google" -> "google"
    [] s = "GOOGLE" -> "google"
    [] s = "Yelp" -> "yelp"
    [] OTHER -> s

Min(a, b) == IF a <= b THEN a ELSE b

\* ------------------------------------------------------------ dates

\* Strings matching /^\d{4}-\d{2}-\d{2}$/ (all of them calendar dates).
IsoDates == {"2024-01-01", "2024-01-02", "2024-01-03"}

\* startDate / endDate values of a request body: missing, a string that is
\* no YYYY-MM-DD date, or a date.
RegexTest(s) == s \in IsoDates

\* A JS Date: a time value in seconds from 2024-01-01T00:00:00 local time,
\* or an Invalid Date (time value NaN).
ValidDate(t) == [valid |-> TRUE, t |-> t]
InvalidDate == [valid |-> FALSE, t |-> 0]

DayStart(d) ==
  CASE d = "2024-01-01" -> 0
    [] d = "2024-01-02" -> 86400
    [] d = "2024-01-03" -> 172800

\* new Date(date + suffix) for suffix "T00:00:00" or "T23:59:59": local
\* time of that day; "undefinedT00:00:00" and the like do not parse.
NewDateConcat(date, suffix) ==
  IF date \in IsoDates
    THEN ValidDate(DayStart(date) + (IF suffix = "T23:59:59" THEN 86399 ELSE 0))
    ELSE InvalidDate

\* new Date(job.JobDateTime) for the JobDateTime strings of the model;
\* new Date(undefined) is an Invalid Date.
NewDate(s) ==
  CASE s = "2023-12-31 12:00:00" -> ValidDate(0 - 43200)
    [] s = "2024-01-01 00:00:00" -> ValidDate(0)
    [] s = "2024-01-01 23:59:59" -> ValidDate(86399)
    [] s = "2024-01-02 12:00:00" -> ValidDate(129600)
    [] s = "2024-01-03 00:00:00" -> ValidDate(172800)
    [] OTHER -> InvalidDate

\* a >= b and a <= b on Dates: any comparison with NaN is false.
DateGeq(a, b) == a.valid /\ b.valid /\ a.t >= b.t
DateLeq(a, b) == a.valid /\ b.valid /\ a.t <= b.t

\* ------------------------------------------------------------ jobs and rows

\* The columns written, in the order of formatJobData's field list (the
\* model keeps four of the 39 fields: the key, a numeric field, the date
\* the window filter reads and the source the source filter reads).
fields == <<"UUID", "SerialId", "JobDateTime", "JobSource">>

formatJobData(job) == [i \in 1..Len(fields) |-> JsString(job[fields[i]])]

Job(uuid, serial, when, source) ==
  [UUID |-> uuid, SerialId |-> serial, JobDateTime |-> when, JobSource |-> source]

\* All sequences over S of length at most n.
SeqUpTo(S, n) == UNION {[1..k -> S] : k \in 0..n}

\* row[0] of a sheet row; an empty row (values.get answers []) has none.
RowKey(row) == IF Len(row) > 0 THEN row[1] ELSE Null

\* ------------------------------------------------------------ fetch step

\* The request's jobSources: an array of source names, or anything else
\* (missing, a string): isArray is Array.isArray(jobSources).
NoSources == [isArray |-> FALSE, elems |-> <<>>]
SourceArray(elems) == [isArray |-> TRUE, elems |-> elems]

\* new Set(jobSources.map((s) => s.toLowerCase()))
jobSourcesSet(jobSources) ==
  {toLowerCase(jobSources.elems[i]) : i \in 1..Len(jobSources.elems)}

\* A faulty SourceMatch: the job's source is looked up as spelled.
SourceMatchNoLowerCase(job, sourceSet) ==
  Truthy(job.JobSource) /\ job.JobSource \in sourceSet
\* job.JobSource && jobSourcesSet.has(job.JobSource.toLowerCase())
SourceMatch(job, sourceSet) ==
  Truthy(job.JobSource) /\ toLowerCase(job.JobSource) \in sourceSet

\* fetchJobs after the HTTP answer: the source filter of the detailed
\* variant; api/sync.js has no jobSources parameter and returns the list.
fetchJobsFilter(data, jobSources) ==
  IF jobSources.isArray /\ Len(jobSources.elems) > 0
    THEN SelectSeq(data, LAMBDA job : SourceMatch(job, jobSourcesSet(jobSources)))
    ELSE data

\* GET job/all/ with params offset and records: the API answers with at
\* most n of the records it holds for the query, from position offset on.
WorkizPage(all, offset, n) ==
  SubSeq(all, offset + 1, Min(offset + n, Len(all)))

\* The one request fetchJobs makes: offset 0, records 100.
fetchJobsData(all) == WorkizPage(all, 0, records)

\* The handler's fallback: startDate missing or not YYYY-MM-DD gives the
\* date seven days before today (today7).
DateToUse(startDate, today7) ==
  IF ~Truthy(startDate) \/ ~RegexTest(startDate) THEN today7 ELSE startDate

\* jobDate >= start && jobDate <= end, with start built from the request's
\* startDate (not dateToUse) and end from endDate.
InWindow(job, startDate, endDate) ==
  LET jobDate == NewDate(job.JobDateTime)
      start == NewDateConcat(startDate, "T00:00:00")
      end == NewDateConcat(endDate, "T23:59:59")
  IN  DateGeq(jobDate, start) /\ DateLeq(jobDate, end)

\* filteredJobs = endDate ? jobs.filter(...) : jobs
FilterByWindow(jobList, startDate, endDate) ==
  IF Truthy(endDate)
    THEN SelectSeq(jobList, LAMBDA job : InWindow(job, startDate, endDate))
    ELSE jobList

\* A faulty uuidToRowIndex: no key is found.
uuidToRowIndexNone(sheetRows) == [k \in {} |-> 0]
\* A faulty NoJobs: an empty job list goes on to the sync.
NoJobsNever(jobList) == FALSE
\* if (!jobs.length)
NoJobs(jobList) == Len(jobList) = 0

\* ------------------------------------------------------------ reconcile step

\* uuidToRowIndex: rows.forEach((row, idx) => { if (row[0]) set(row[0], idx) })
\* idx is 0-based; a key met twice keeps the later index.
uuidToRowIndex(sheetRows) ==
  LET keys == {RowKey(sheetRows[i]) : i \in 1..Len(sheetRows)}
      live == {k \in keys : Truthy(k)}
  IN  [k \in live |->
        CHOOSE idx \in 0..(Len(sheetRows) - 1) :
          /\ RowKey(sheetRows[idx + 1]) = k
          /\ \A j \in 0..(Len(sheetRows) - 1) :
               RowKey(sheetRows[j + 1]) = k => j <= idx]

\* A faulty SkipJob: no job is skipped.
SkipJobNever(job) == FALSE
\* if (!uuid) continue
SkipJob(job) == ~Truthy(job.UUID)

\* A faulty RowNumber: the row below the matching one.
RowNumberRowBelow(existingIndex) == existingIndex + 3
\* A faulty RowNumber: the header row is not counted.
RowNumberOffByOne(existingIndex) == existingIndex + 1
\* The sheet row of snapshot index existingIndex: the A{n}:AM{n} range.
RowNumber(existingIndex) == existingIndex + 2

\* The for loop of batchSyncJobsWithSheet from job i on. acc holds the
\* updates, the appends and the local rows array; mutateRows is api/sync.js's
\* rows[existingIndex] = data, which the other variant does not have.
RECURSIVE PartitionLoop(_, _, _, _, _)
PartitionLoop(jobList, i, map, acc, mutateRows) ==
  IF i > Len(jobList) THEN acc
  ELSE
    LET job == jobList[i]
        uuid == job.UUID
        data == formatJobData(job)
    IN  IF SkipJob(job) THEN PartitionLoop(jobList, i + 1, map, acc, mutateRows)
        ELSE IF uuid \in DOMAIN map
          THEN PartitionLoop(jobList, i + 1, map,
                 [acc EXCEPT
                    !.updates = Append(@, [range |-> RowNumber(map[uuid]),
                                           values |-> <<data>>]),
                    !.rows = IF mutateRows
                               THEN [@ EXCEPT ![map[uuid] + 1] = data]
                               ELSE @],
                 mutateRows)
          ELSE PartitionLoop(jobList, i + 1, map,
                 [acc EXCEPT !.appends = Append(@, data)], mutateRows)

Partition(jobList, sheetRows, mutateRows) ==
  PartitionLoop(jobList, 1, uuidToRowIndex(sheetRows),
                [updates |-> <<>>, appends |-> <<>>, rows |-> sheetRows],
                mutateRows)

\* A faulty NeedsCall: the call is made for an empty list too.
NeedsCallAlways(list) == TRUE
\* if (updates.length > 0) / if (appends.length > 0)
NeedsCall(list) == Len(list) > 0

\* A faulty FirstWrite: the append is looked at first, and the sync returns
\* after it.
FirstWriteAppend(updateList, appendList) ==
  IF NeedsCall(appendList) THEN "append"
  ELSE IF NeedsCall(updateList) THEN "batchUpdate"
  ELSE "synced"
\* The order of the two writes at the end of batchSyncJobsWithSheet: the
\* batch update when there are updates, and only then the append.
FirstWrite(updateList, appendList) ==
  IF NeedsCall(updateList) THEN "batchUpdate"
  ELSE IF NeedsCall(appendList) THEN "append"
  ELSE "synced"

\* ------------------------------------------------------------ Sheets API

\* values.get of <sheet>!A2:...: the data rows, row 2 first.
ValuesGet(sheetRows) == sheetRows

\* One ValueRange of a batchUpdate: row n of the sheet becomes values.
\* Row 1 is the header, which is not among the data rows; a row past the
\* end is created, with empty rows up to it.
WriteRow(sheetRows, n, values) ==
  IF n < 2 THEN sheetRows
  ELSE IF n - 1 <= Len(sheetRows) THEN [sheetRows EXCEPT ![n - 1] = values]
  ELSE [i \in 1..(n - 1) |->
          IF i <= Len(sheetRows) THEN sheetRows[i]
          ELSE IF i = n - 1 THEN values ELSE <<>>]

\* values.batchUpdate: the ValueRanges are applied in the order given.
RECURSIVE ValuesBatchUpdate(_, _)
ValuesBatchUpdate(sheetRows, data) ==
  IF data = <<>> THEN sheetRows
  ELSE ValuesBatchUpdate(
         WriteRow(sheetRows, Head(data).range, Head(data).values[1]),
         Tail(data))

\* values.append with INSERT_ROWS: the rows are added below the last row.
ValuesAppend(sheetRows, newRows) == sheetRows \o newRows

\* ------------------------------------------------------------ sequential reconcile

\* findRowIndex (part_001): the first index i, from 0, with rows[i][0] ===
\* jobUUID, or -1.
findRowIndex(sheetRows, jobUUID) ==
  LET hits == {i \in 0..(Len(sheetRows) - 1) : RowKey(sheetRows[i + 1]) = jobUUID}
  IN  IF hits = {} THEN 0 - 1
      ELSE CHOOSE i \in hits : \A j \in hits : i <= j

\* A faulty rowNumber: the header row is not counted.
rowNumberOffByOne(rowIndex) == rowIndex + 1
\* updateSheetRow(rowIndex + 2, rowData): the sheet row of index rowIndex.
rowNumber(rowIndex) == rowIndex + 2

\* updateSheetRow: values.update of A{rowNumber}:Z{rowNumber}.
updateSheetRow(sheetNow, n, rowValues) == WriteRow(sheetNow, n, rowValues)
\* appendSheetRow: values.append of one row.
appendSheetRow(sheetNow, rowValues) == ValuesAppend(sheetNow, <<rowValues>>)

\* The for loop of syncJobsWithSheet from job i on; st holds the sheet and
\* the local sheetRows array.
RECURSIVE syncJobsLoop(_, _, _)
syncJobsLoop(jobList, i, st) ==
  IF i > Len(jobList) THEN st
  ELSE
    LET job == jobList[i]
        jobUUID == job.UUID
        rowData == formatJobData(job)
        rowIndex == findRowIndex(st.sheetRows, jobUUID)
    IN  IF ~Truthy(jobUUID) THEN syncJobsLoop(jobList, i + 1, st)
        ELSE IF rowIndex # 0 - 1
          THEN syncJobsLoop(jobList, i + 1,
                 [sheet |-> updateSheetRow(st.sheet, rowNumber(rowIndex), rowData),
                  sheetRows |-> [st.sheetRows EXCEPT ![rowIndex + 1] = rowData]])
          ELSE syncJobsLoop(jobList, i + 1,
                 [sheet |-> appendSheetRow(st.sheet, rowData),
                  sheetRows |-> Append(st.sheetRows, rowData)])

\* syncJobsWithSheet with every call succeeding: the sheet it leaves.
syncJobsWithSheet(sheetNow, jobList) ==
  syncJobsLoop(jobList, 1,
               [sheet |-> sheetNow, sheetRows |-> ValuesGet(sheetNow)]).sheet

\* ------------------------------------------------------------ errors, backoff

\* Errors a Sheets write is answered with.
Err429 == [code |-> 429, errors |-> {"rateLimitExceeded"}]
ErrUserRate == [code |-> 403, errors |-> {"userRateLimitExceeded"}]
ErrForbidden == [code |-> 403, errors |-> {"forbidden"}]
WriteErrors == {Err429, ErrUserRate, ErrForbidden}
\* The error of a failed auth, job fetch, values.get or detail read.
ErrBackend == [code |-> 500, errors |-> {}]
NoError == [code |-> 0, errors |-> {}]

\* A faulty isQuotaError: every HTTP error counts as a quota error.
isQuotaErrorAny(error) == error.code >= 400
\* error.code === 429 || error.errors.some(reason userRateLimitExceeded)
isQuotaError(error) ==
  error.code = 429 \/ (\E reason \in error.errors : reason = "userRateLimitExceeded")

\* const delay = Math.min(1000 * 2 ** retries, 30000)
BackoffDelay(r) == Min(1000 * 2^r, 30000)

\* The retries parameter of handleQuotaBackoff at a call from
\* batchUpdateRows / batchAppendRows: the call passes (error, retryFunction)
\* only, so the parameter takes its default 0. passed is the argument
\* retryFunction(retries + 1) handed to the closure
\* () => batchUpdateRows(...), which has no parameter and drops it.
RetriesParameter(passed) == 0

\* ------------------------------------------------------------ state

VARIABLES
  variant,       \* which handler runs: "sync" (api/sync.js) or "detailed"
  req,           \* the request: method and body
  env,           \* process.env (is each variable set) and the fallback date
  remote,        \* the job list the Workiz API answers with
  sheet,         \* the data rows of the spreadsheet, row 2 first
  faultsLeft,    \* external calls the environment may still fail
  pc,            \* the handler's position
  dateToUse,     \* handler: the start date given to fetchJobs
  jobs,          \* handler: what fetchJobs returned
  filteredJobs,  \* handler: the jobs passed to batchSyncJobsWithSheet
  snapshot,      \* batchSyncJobsWithSheet: what getSheetRows answered
  rows,          \* batchSyncJobsWithSheet: the local rows array
  updates,       \* batchSyncJobsWithSheet: the updates built
  appends,       \* batchSyncJobsWithSheet: the rows to append
  detailUpdates, \* fetchAndUpdateDetailedJobs: the updates built
  retryFunction, \* the write the pending backoff will call again
  retries,       \* handleQuotaBackoff's retries parameter at its last call
  retryArg,      \* the argument last given to retryFunction
  delay,         \* the delay of the last backoff timer
  attempts,      \* API calls made for the write in progress
  waits,         \* backoff timers started for the write in progress
  err,           \* the error last caught
  log,           \* the external calls made, in order
  res,           \* the response sent
  run,           \* which request this is: the first or the second
  firstRun,      \* the sheet and the appends the first request ended with
  sequential     \* the sheet syncJobsWithSheet leaves for the same input

vars ==
  <<variant, req, env, remote, sheet, faultsLeft, pc, dateToUse, jobs,
    filteredJobs, snapshot, rows, updates, appends, detailUpdates,
    retryFunction, retries, retryArg, delay, attempts, waits, err, log, res,
    run, firstRun, sequential>>

\* What no step of the handler changes while it serves a request.
inputs == <<variant, req, env, remote, run, firstRun, sequential>>
\* The sequential reconcile has not been run on this request's input.
NotRun == [ran |-> FALSE, sheet |-> <<>>]
\* The locals of the fetch step.
fetched == <<dateToUse, jobs, filteredJobs>>
\* The locals of batchSyncJobsWithSheet.
reconciled == <<snapshot, rows, updates, appends>>
\* The state of the write being retried.
backoff == <<retryFunction, retries, retryArg, delay, attempts, waits>>

Variants == {"sync", "detailed"}

NoResponse == [status |-> 0, body |-> "", jobsSynced |-> 0 - 1, cause |-> 0]
Response(status, body) ==
  [status |-> status, body |-> body, jobsSynced |-> 0 - 1, cause |-> 0]
\* res.status(500).json({ error: "Sync failed: " + err.message })
SyncFailed(error) ==
  [status |-> 500, body |-> "Sync failed: ", jobsSynced |-> 0 - 1,
   cause |-> error.code]
\* res.status(200).json({ message: ..., jobsSynced: filteredJobs.length })
SyncComplete(message, n) ==
  [status |-> 200, body |-> message, jobsSynced |-> n, cause |-> 0]

Call(api, ok, n) == [api |-> api, ok |-> ok, n |-> n]

\* ------------------------------------------------------------ initial states

AllSet ==
  [WORKIZ_API_TOKEN |-> TRUE, SPREADSHEET_ID |-> TRUE,
   GOOGLE_APPLICATION_CREDENTIALS |-> TRUE, today7 |-> "2024-01-02"]

Post(startDate, endDate, jobSources) ==
  [method |-> "POST", startDate |-> startDate, endDate |-> endDate,
   jobSources |-> jobSources]

\* Rows a sheet holds before the request: an empty row, a row with an empty
\* key cell, and rows keyed "a" and "b" holding older data.
ExistingRows ==
  { <<>>,
    <<"", "1", "", "Yelp">>,
    <<"a", "1", "2023-12-31 12:00:00", "Yelp">>,
    <<"b", "1", "2023-12-31 12:00:00", "Yelp">> }

\* Jobs for the reconcile step: with no UUID, an empty UUID, and UUIDs "a"
\* and "b", each of these in two versions.
ReconcileJobs ==
  { Job(Null, Null, "2024-01-01 00:00:00", "Google"),
    Job("", Num7, "2024-01-01 00:00:00", "Google") }
  \cup { Job(u, s, "2024-01-01 00:00:00", "Google") :
           u \in {"a", "b"}, s \in {Null, Num7} }

JobDateTimes ==
  { Null, "2023-12-31 12:00:00", "2024-01-01 00:00:00", "2024-01-01 23:59:59",
    "2024-01-02 12:00:00", "2024-01-03 00:00:00" }
WindowJobs == { Job("a", Null, t, "Google") : t \in JobDateTimes }

JobSources == { Null, "", "Google", "google", "Yelp", "Bing" }
SourceJobs == { Job("a", Null, "2024-01-01 00:00:00", s) : s \in JobSources }
SourceLists ==
  { NoSources, SourceArray(<<>>), SourceArray(<<"google">>),
    SourceArray(<<"GOOGLE", "Yelp">>), SourceArray(<<"yelp">>) }

RowA == <<"a", "1", "2023-12-31 12:00:00", "Yelp">>
RetryJobs ==
  << Job("a", Num7, "2024-01-01 00:00:00", "Google"),
     Job("b", Null, "2024-01-01 00:00:00", "Google") >>

\* The locals before the handler has run.
InitLocals ==
  /\ pc = "start"
  /\ dateToUse = Null
  /\ jobs = <<>>
  /\ filteredJobs = <<>>
  /\ snapshot = <<>>
  /\ rows = <<>>
  /\ updates = <<>>
  /\ appends = <<>>
  /\ detailUpdates = <<>>
  /\ retryFunction = "none"
  /\ retries = 0
  /\ retryArg = 0
  /\ delay = 0
  /\ attempts = 0
  /\ waits = 0
  /\ err = NoError
  /\ log = <<>>
  /\ res = NoResponse

\* Any job list against any sheet, every call succeeding.
InitReconcile ==
  /\ req = Post("2024-01-01", Null, NoSources)
  /\ env = AllSet
  /\ remote \in SeqUpTo(ReconcileJobs, MaxJobs)
  /\ sheet \in SeqUpTo(ExistingRows, MaxRows)
  /\ faultsLeft = 0

\* One update and one append (or the append alone), with calls failing.
InitRetry ==
  /\ req = Post("2024-01-01", Null, NoSources)
  /\ env = AllSet
  /\ remote = RetryJobs
  /\ sheet \in {<<>>, <<RowA>>}
  /\ faultsLeft = MaxFaults

\* Any start and end date against any JobDateTimes.
InitWindow ==
  /\ \E startDate \in {Null, "yesterday", "2024-01-01", "2024-01-02"},
        endDate \in {Null, "2024-01-01", "2024-01-02"} :
       req = Post(startDate, endDate, NoSources)
  /\ \E today7 \in {"2024-01-01", "2024-01-02"} :
       env = [AllSet EXCEPT !.today7 = today7]
  /\ remote \in SeqUpTo(WindowJobs, MaxJobs)
  /\ sheet = <<>>
  /\ faultsLeft = 0

\* Any jobSources against any JobSource values.
InitSource ==
  /\ \E jobSources \in SourceLists : req = Post("2024-01-01", Null, jobSources)
  /\ env = AllSet
  /\ remote \in SeqUpTo(SourceJobs, MaxJobs)
  /\ sheet = <<>>
  /\ faultsLeft = 0

\* Any method and any subset of the three environment variables set.
InitGate ==
  /\ \E method \in {"GET", "POST", "PUT"} :
       req = [Post("2024-01-01", Null, NoSources) EXCEPT !.method = method]
  /\ \E token \in BOOLEAN, id \in BOOLEAN, creds \in BOOLEAN :
       env = [AllSet EXCEPT !.WORKIZ_API_TOKEN = token,
                            !.SPREADSHEET_ID = id,
                            !.GOOGLE_APPLICATION_CREDENTIALS = creds]
  /\ remote = RetryJobs
  /\ sheet = <<RowA>>
  /\ faultsLeft = 0

\* One job more than a page holds, each with its own UUID, against an
\* empty sheet (api/sync.js; the other variants ask for the same one page).
\* The first and the last job are of the requested day, the others of the
\* day before.
PagedJobs ==
  [i \in 1..(records + 1) |->
     Job(ToString(i), Null,
         IF i \in {1, records + 1} THEN "2024-01-01 00:00:00"
                                   ELSE "2023-12-31 12:00:00",
         "Google")]

InitPaging ==
  /\ req = Post("2024-01-01", "2024-01-01", NoSources)
  /\ env = AllSet
  /\ remote = PagedJobs
  /\ sheet = <<>>
  /\ faultsLeft = 0

\* No request has ended yet.
NoRun == [sheet |-> <<>>, appends |-> <<>>]

Init ==
  /\ InitLocals
  /\ run = 1
  /\ firstRun = NoRun
  /\ sequential = NotRun
  /\ \/ /\ variant \in Variants
        /\ \/ InitReconcile
           \/ InitRetry
           \/ InitWindow
           \/ InitSource
           \/ InitGate
     \/ /\ variant = "sync"
        /\ InitPaging

\* ------------------------------------------------------------ handler

\* if (req.method !== "POST")
MethodNotAllowed(request) == request.method # "POST"

\* A faulty EnvMissing: && in place of ||.
EnvMissingAll(environment) ==
  /\ ~environment.WORKIZ_API_TOKEN
  /\ ~environment.SPREADSHEET_ID
  /\ ~environment.GOOGLE_APPLICATION_CREDENTIALS
\* if (!WORKIZ_API_TOKEN || !SPREADSHEET_ID || !GOOGLE_APPLICATION_CREDENTIALS)
EnvMissing(environment) ==
  \/ ~environment.WORKIZ_API_TOKEN
  \/ ~environment.SPREADSHEET_ID
  \/ ~environment.GOOGLE_APPLICATION_CREDENTIALS

\* The handler's catch block: the error becomes the 500 answer.
Throw(error) ==
  /\ res' = SyncFailed(error)
  /\ pc' = "done"

\* The handler up to its first await: the method check, the environment
\* check and the start date.
HandlerGate ==
  /\ pc = "start"
  /\ IF MethodNotAllowed(req)
       THEN /\ res' = Response(405, "Use POST only.")
            /\ pc' = "done"
            /\ UNCHANGED dateToUse
       ELSE IF EnvMissing(env)
         THEN /\ res' = Response(500, "Missing environment variables")
              /\ pc' = "done"
              /\ UNCHANGED dateToUse
         ELSE /\ dateToUse' = DateToUse(req.startDate, env.today7)
              /\ pc' = "auth"
              /\ UNCHANGED res
  /\ UNCHANGED <<inputs, sheet, faultsLeft, jobs, filteredJobs, reconciled,
                 detailUpdates, backoff, err, log>>

\* await authenticateGoogleSheets(...)
Authenticate ==
  /\ pc = "auth"
  /\ \/ /\ log' = Append(log, Call("auth", TRUE, 0))
        /\ pc' = "fetch"
        /\ UNCHANGED <<faultsLeft, err, res>>
     \/ /\ faultsLeft > 0
        /\ faultsLeft' = faultsLeft - 1
        /\ log' = Append(log, Call("auth", FALSE, 0))
        /\ err' = ErrBackend
        /\ Throw(ErrBackend)
  /\ UNCHANGED <<inputs, sheet, fetched, reconciled, detailUpdates, backoff>>

\* await fetchJobs(...), the "No jobs found." answer and the date window.
FetchJobs ==
  /\ pc = "fetch"
  /\ \/ /\ log' = Append(log, Call("fetch", TRUE, Len(fetchJobsData(remote))))
        /\ jobs' = IF variant = "detailed"
                     THEN fetchJobsFilter(fetchJobsData(remote), req.jobSources)
                     ELSE fetchJobsData(remote)
        /\ IF NoJobs(jobs')
             THEN /\ res' = Response(200, "No jobs found.")
                  /\ pc' = "done"
                  /\ UNCHANGED filteredJobs
             ELSE /\ filteredJobs' = FilterByWindow(jobs', req.startDate, req.endDate)
                  /\ pc' = "getRows"
                  /\ UNCHANGED res
        /\ UNCHANGED <<faultsLeft, err>>
     \/ /\ faultsLeft > 0
        /\ faultsLeft' = faultsLeft - 1
        /\ log' = Append(log, Call("fetch", FALSE, 0))
        /\ err' = ErrBackend
        /\ Throw(ErrBackend)
        /\ UNCHANGED <<jobs, filteredJobs>>
  /\ UNCHANGED <<inputs, sheet, dateToUse, reconciled, detailUpdates, backoff>>

\* batchSyncJobsWithSheet up to its first write: getSheetRows, the map, the
\* loop over the jobs and the two length checks.
BatchSyncPartition ==
  /\ pc = "getRows"
  /\ \/ /\ log' = Append(log, Call("get", TRUE, Len(sheet)))
        /\ snapshot' = ValuesGet(sheet)
        /\ LET p == Partition(filteredJobs, snapshot', variant = "sync")
           IN  /\ rows' = p.rows
               /\ updates' = p.updates
               /\ appends' = p.appends
        /\ pc' = FirstWrite(updates', appends')
        /\ UNCHANGED <<faultsLeft, err, res>>
     \/ /\ faultsLeft > 0
        /\ faultsLeft' = faultsLeft - 1
        /\ log' = Append(log, Call("get", FALSE, 0))
        /\ err' = ErrBackend
        /\ Throw(ErrBackend)
        /\ UNCHANGED reconciled
  /\ UNCHANGED <<inputs, sheet, fetched, detailUpdates, backoff>>

\* The catch block of a write: handleQuotaBackoff(error, retryFunction).
\* A quota error under the retry limit starts the timer; anything else is
\* thrown to the handler.
handleQuotaBackoff(error, fn) ==
  /\ err' = error
  /\ retries' = RetriesParameter(retryArg)
  /\ IF isQuotaError(error) /\ retries' < maxRetries
       THEN /\ delay' = BackoffDelay(retries')
            /\ waits' = waits + 1
            /\ retryFunction' = fn
            /\ pc' = "backoff"
            /\ UNCHANGED res
       ELSE /\ Throw(error)
            /\ UNCHANGED <<delay, waits, retryFunction>>

\* The write went through: its retry state is over.
WriteDone ==
  /\ retryFunction' = "none"
  /\ retries' = 0
  /\ retryArg' = 0
  /\ delay' = 0
  /\ attempts' = 0
  /\ waits' = 0

\* batchUpdateRows(sheets, spreadsheetId, updates): one values.batchUpdate
\* call. at is the position of the call, data its updates; next and answer
\* are the caller's position and response once the call has returned.
batchUpdateRows(at, data, next, answer) ==
  /\ pc = at
  /\ \/ /\ sheet' = ValuesBatchUpdate(sheet, data)
        /\ log' = Append(log, Call("batchUpdate", TRUE, Len(data)))
        /\ pc' = next
        /\ res' = answer
        /\ WriteDone
        /\ UNCHANGED <<faultsLeft, err>>
     \/ /\ faultsLeft > 0
        /\ faultsLeft' = faultsLeft - 1
        /\ log' = Append(log, Call("batchUpdate", FALSE, Len(data)))
        /\ attempts' = attempts + 1
        /\ \E error \in WriteErrors : handleQuotaBackoff(error, at)
        /\ UNCHANGED <<sheet, retryArg>>

\* The batch update of batchSyncJobsWithSheet and the append check after it.
BatchUpdate ==
  /\ batchUpdateRows("batchUpdate", updates,
                     IF NeedsCall(appends) THEN "append" ELSE "synced", res)
  /\ UNCHANGED <<inputs, fetched, reconciled, detailUpdates>>

\* batchAppendRows(sheets, spreadsheetId, sheetName, appends): one
\* values.append call.
BatchAppend ==
  /\ pc = "append"
  /\ \/ /\ sheet' = ValuesAppend(sheet, appends)
        /\ log' = Append(log, Call("append", TRUE, Len(appends)))
        /\ pc' = "synced"
        /\ WriteDone
        /\ UNCHANGED <<faultsLeft, err, res>>
     \/ /\ faultsLeft > 0
        /\ faultsLeft' = faultsLeft - 1
        /\ log' = Append(log, Call("append", FALSE, Len(appends)))
        /\ attempts' = attempts + 1
        /\ \E error \in WriteErrors : handleQuotaBackoff(error, "append")
        /\ UNCHANGED <<sheet, retryArg>>
  /\ UNCHANGED <<inputs, fetched, reconciled, detailUpdates>>

\* The backoff timer fires: return retryFunction(retries + 1).
BackoffElapsed ==
  /\ pc = "backoff"
  /\ retryArg' = retries + 1
  /\ pc' = retryFunction
  /\ UNCHANGED <<inputs, sheet, faultsLeft, fetched, reconciled, detailUpdates,
                 retryFunction, retries, delay, attempts, waits, err, log, res>>

\* ------------------------------------------------------------ after the sync

\* The detailed answer of GET job/get/<uuid>/ the model uses.
DetailedJob(uuid) == Job(uuid, Num7, "2024-01-02 12:00:00", "Yelp")

\* The updates fetchAndUpdateDetailedJobs builds when the detail requests of
\* the UUIDs in found answer with data: one per UUID, on the row the map
\* gives it. The requests run five at a time and push in the order they
\* complete; the rows are distinct, so the order does not show in the
\* sheet, and the model lists them by row from index idx on.
RECURSIVE DetailUpdatesFrom(_, _, _, _)
DetailUpdatesFrom(sheetRows, map, found, idx) ==
  IF idx >= Len(sheetRows) THEN <<>>
  ELSE
    LET key == RowKey(sheetRows[idx + 1])
        rest == DetailUpdatesFrom(sheetRows, map, found, idx + 1)
    IN  IF key \in found /\ map[key] = idx
          THEN <<[range |-> RowNumber(idx),
                  values |-> <<formatJobData(DetailedJob(key))>>]>> \o rest
          ELSE rest

\* batchSyncJobsWithSheet has returned: api/sync.js answers; the detailed
\* variant goes on to fetchAndUpdateDetailedJobs.
BatchSyncReturns ==
  /\ pc = "synced"
  /\ IF variant = "sync"
       THEN /\ res' = SyncComplete("Sync complete.", Len(filteredJobs))
            /\ pc' = "done"
       ELSE /\ pc' = "details"
            /\ UNCHANGED res
  /\ UNCHANGED <<inputs, sheet, faultsLeft, fetched, reconciled, detailUpdates,
                 backoff, err, log>>

\* fetchAndUpdateDetailedJobs up to its write: getSheetRows, then one detail
\* request per UUID of the sheet; a request that fails or answers without
\* data is logged and skipped.
FetchDetails ==
  /\ pc = "details"
  /\ \/ /\ LET map == uuidToRowIndex(ValuesGet(sheet))
           IN  /\ \E found \in SUBSET (DOMAIN map) :
                    detailUpdates' = DetailUpdatesFrom(ValuesGet(sheet), map, found, 0)
               /\ log' = log \o <<Call("get", TRUE, Len(sheet))>>
                             \o (IF DOMAIN map = {} THEN <<>>
                                 ELSE <<Call("detail", TRUE, Cardinality(DOMAIN map))>>)
        /\ IF Len(detailUpdates') > 0
             THEN /\ pc' = "detailUpdate"
                  /\ UNCHANGED res
             ELSE /\ pc' = "done"
                  /\ res' = SyncComplete("Sync complete including detailed updates.",
                                         Len(filteredJobs))
        /\ UNCHANGED <<faultsLeft, err>>
     \/ /\ faultsLeft > 0
        /\ faultsLeft' = faultsLeft - 1
        /\ log' = Append(log, Call("get", FALSE, 0))
        /\ err' = ErrBackend
        /\ Throw(ErrBackend)
        /\ UNCHANGED detailUpdates
  /\ UNCHANGED <<inputs, sheet, fetched, reconciled, backoff>>

\* The batch update of fetchAndUpdateDetailedJobs and the answer after it.
DetailUpdate ==
  /\ batchUpdateRows("detailUpdate", detailUpdates, "done",
                     SyncComplete("Sync complete including detailed updates.",
                                  Len(filteredJobs)))
  /\ UNCHANGED <<inputs, fetched, reconciled, detailUpdates>>

\* ------------------------------------------------------------ specification

\* The handler is invoked again with the same request, after a first
\* request answered with a completed sync: its locals are fresh, the sheet
\* and the remote job list are as the first request left them.
SecondRequest ==
  /\ pc = "done"
  /\ run = 1
  /\ res.status = 200
  /\ res.jobsSynced >= 0
  /\ run' = 2
  /\ firstRun' = [sheet |-> sheet, appends |-> appends]
  /\ pc' = "start"
  /\ dateToUse' = Null
  /\ jobs' = <<>>
  /\ filteredJobs' = <<>>
  /\ snapshot' = <<>>
  /\ rows' = <<>>
  /\ updates' = <<>>
  /\ appends' = <<>>
  /\ detailUpdates' = <<>>
  /\ retryFunction' = "none"
  /\ retries' = 0
  /\ retryArg' = 0
  /\ delay' = 0
  /\ attempts' = 0
  /\ waits' = 0
  /\ err' = NoError
  /\ log' = <<>>
  /\ res' = NoResponse
  /\ sequential' = NotRun
  /\ UNCHANGED <<variant, req, env, remote, sheet, faultsLeft>>

\* The sequential reconcile of part_001 on what this request's batch sync
\* was given: the sheet as read and the same jobs, every call succeeding.
SequentialSync ==
  /\ pc = "synced"
  /\ ~sequential.ran
  /\ sequential' = [ran |-> TRUE,
                     sheet |-> syncJobsWithSheet(snapshot, filteredJobs)]
  /\ UNCHANGED <<variant, req, env, remote, run, firstRun, sheet, faultsLeft,
                 pc, fetched, reconciled, detailUpdates, backoff, err, log, res>>

Next ==
  \/ SecondRequest
  \/ SequentialSync
  \/ HandlerGate
  \/ Authenticate
  \/ FetchJobs
  \/ BatchSyncPartition
  \/ BatchUpdate
  \/ BatchAppend
  \/ BackoffElapsed
  \/ BatchSyncReturns
  \/ FetchDetails
  \/ DetailUpdate

Spec == Init /\ [][Next]_vars

\* ------------------------------------------------------------ properties

\* The calls of one API in the log.
Calls(api) == {k \in 1..Len(log) : log[k].api = api}
\* getSheetRows of batchSyncJobsWithSheet has answered.
SnapshotTaken == \E k \in Calls("get") : log[k].ok
\* No values.batchUpdate or values.append call has failed.
NoWriteFailed ==
  \A k \in Calls("batchUpdate") \cup Calls("append") : log[k].ok

\* The jobs of a list that carry a UUID, by position.
Keyed(jobList) == {i \in 1..Len(jobList) : Truthy(jobList[i].UUID)}
\* The last job of a list carrying the UUID.
LastWith(jobList, uuid) ==
  jobList[CHOOSE i \in 1..Len(jobList) :
            /\ jobList[i].UUID = uuid
            /\ \A j \in 1..Len(jobList) : jobList[j].UUID = uuid => j <= i]
\* Column A of some row holds the key.
InColumnA(sheetRows, key) ==
  \E r \in 1..Len(sheetRows) : RowKey(sheetRows[r]) = key
\* No two rows share a non-empty key.
UniqueKeys(sheetRows) ==
  \A r1, r2 \in 1..Len(sheetRows) :
    (r1 # r2 /\ Truthy(RowKey(sheetRows[r1])))
      => RowKey(sheetRows[r1]) # RowKey(sheetRows[r2])
\* The position of i among the members of S, counted from 1.
Rank(i, S) == Cardinality({j \in S : j <= i})

\* C1 (upsert result): when batchSyncJobsWithSheet has returned, every job
\* passed to it that has a non-empty UUID finds a sheet row whose column A is
\* that UUID and whose cells are formatJobData of the last job passed with
\* that UUID.
C1_UpsertResult ==
  pc = "synced" =>
    \A i \in Keyed(filteredJobs) :
      LET uuid == filteredJobs[i].UUID
      IN  \E r \in 1..Len(sheet) :
            /\ RowKey(sheet[r]) = uuid
            /\ sheet[r] = formatJobData(LastWith(filteredJobs, uuid))

\* C1's case: a sync that has returned after updating the row of a UUID
\* passed twice with different data.
C1_Witness ==
  /\ pc = "synced"
  /\ Len(updates) = 2
  /\ \E i, j \in Keyed(filteredJobs) :
       /\ i < j
       /\ filteredJobs[i].UUID = filteredJobs[j].UUID
       /\ filteredJobs[i] # filteredJobs[j]

\* C2 (key uniqueness), as claimed: if no two rows of the snapshot share a
\* non-empty UUID, then after batchSyncJobsWithSheet has returned no two
\* rows of the sheet do, whatever the job list.
C2_KeyUniqueness ==
  (pc = "synced" /\ UniqueKeys(snapshot)) => UniqueKeys(sheet)

\* C3 (partition): once the loop of batchSyncJobsWithSheet has run, the
\* jobs with a non-empty UUID found in column A of the snapshot are, in
\* order, the updates, each on row (snapshot index + 2) of a row holding its
\* UUID; the other jobs with a non-empty UUID are, in order, the appends;
\* the jobs without a UUID are in neither, so that updates + appends counts
\* the jobs with a non-empty UUID.
C3_Partition ==
  SnapshotTaken =>
    LET keyed == Keyed(filteredJobs)
        upd == {i \in keyed : InColumnA(snapshot, filteredJobs[i].UUID)}
        app == keyed \ upd
    IN  /\ Len(updates) = Cardinality(upd)
        /\ Len(appends) = Cardinality(app)
        /\ Len(updates) + Len(appends) = Cardinality(keyed)
        /\ \A i \in upd :
             LET u == updates[Rank(i, upd)]
             IN  /\ u.values = <<formatJobData(filteredJobs[i])>>
                 /\ \E idx \in 0..(Len(snapshot) - 1) :
                      /\ RowKey(snapshot[idx + 1]) = filteredJobs[i].UUID
                      /\ u.range = idx + 2
        /\ \A i \in app :
             appends[Rank(i, app)] = formatJobData(filteredJobs[i])

\* C3's case: a list with a job to update, a job to append and no more.
C3_Witness ==
  /\ SnapshotTaken
  /\ Len(filteredJobs) = 2
  /\ Len(updates) = 1
  /\ Len(appends) = 1

\* C4 (bounded retry), as claimed: a write is retried at most maxRetries
\* times, so it is attempted at most maxRetries + 1 times.
C4_BoundedRetry ==
  /\ waits <= maxRetries
  /\ attempts <= maxRetries + 1

\* C5 (exponential backoff), as claimed: while the timer of the n-th retry
\* (n = 0, 1, 2, ...) of a write runs, its delay is min(1000 * 2^n, 30000)
\* and the retry counter handleQuotaBackoff was given is n.
C5_ExponentialBackoff ==
  pc = "backoff" =>
    /\ delay = Min(1000 * 2^(waits - 1), 30000)
    /\ retries = waits - 1

\* C6 (no retry of other errors): once a write has failed with an error
\* that is no rate-limit error, the failed call is the last call made, no
\* timer was started for it, and the answer is 500 "Sync failed: ...".
C6_OtherErrorsThrown ==
  err = ErrForbidden =>
    /\ pc = "done"
    /\ res.status = 500
    /\ res.body = "Sync failed: "
    /\ res.cause = ErrForbidden.code
    /\ log[Len(log)].api \in {"batchUpdate", "append"}
    /\ ~log[Len(log)].ok
    /\ waits = attempts - 1

\* C6's case: the first attempt of a write fails with a 403 that is no
\* rate-limit error.
C6_Witness ==
  /\ err = ErrForbidden
  /\ attempts = 1
  /\ waits = 0
  /\ res.status = 500

\* The jobs whose JobDateTime lies from the effective start date at
\* 00:00:00 to the end date at 23:59:59.
InClaimedWindow(job) ==
  LET when == NewDate(job.JobDateTime)
  IN  /\ when.valid
      /\ DayStart(dateToUse) <= when.t
      /\ when.t <= DayStart(req.endDate) + 86399

\* C7 (date window), as claimed: with an endDate, the jobs passed to the
\* reconcile step are the fetched jobs dated from the effective start date
\* (the request's, or the fallback) at 00:00:00 to endDate at 23:59:59;
\* with none, all fetched jobs.
C7_DateWindow ==
  pc = "getRows" =>
    filteredJobs =
      IF Truthy(req.endDate)
        THEN SelectSeq(jobs, InClaimedWindow)
        ELSE jobs

\* Names that differ in letter case only.
CaseVariants == {{"Google", "google", "GOOGLE"}, {"Yelp", "yelp", "YELP"}}
SameIgnoringCase(a, b) ==
  a = b \/ \E names \in CaseVariants : a \in names /\ b \in names
\* The job has a JobSource equal, ignoring case, to a requested source.
Requested(job) ==
  /\ Truthy(job.JobSource)
  /\ \E k \in 1..Len(req.jobSources.elems) :
       SameIgnoringCase(job.JobSource, req.jobSources.elems[k])

\* C8 (source filter): what fetchJobs of the detailed variant returns is,
\* for a non-empty jobSources array, the fetched jobs with a JobSource equal
\* ignoring case to some element of it, in their order; and every fetched
\* job when jobSources is no array or is empty.
C8_SourceFilter ==
  (variant = "detailed" /\ \E k \in Calls("fetch") : log[k].ok) =>
    jobs =
      IF req.jobSources.isArray /\ Len(req.jobSources.elems) > 0
        THEN SelectSeq(remote, Requested)
        ELSE remote

\* C8's case: the filter kept a job whose JobSource is spelled in another
\* case than the requested source, and dropped another job.
C8_Witness ==
  /\ variant = "detailed"
  /\ Len(jobs) = 1
  /\ Len(remote) = 2
  /\ Len(req.jobSources.elems) > 0
  /\ \A k \in 1..Len(req.jobSources.elems) :
       req.jobSources.elems[k] # jobs[1].JobSource

\* C9 (request gating): a request that is not a POST is answered 405, a
\* POST with one of the three environment variables unset is answered 500,
\* and in both cases no external call is made: no authentication, no fetch,
\* no read or write of the sheet.
C9_RequestGating ==
  /\ req.method # "POST" =>
       /\ pc \in {"start", "done"}
       /\ pc = "done" => res.status = 405
       /\ log = <<>>
  /\ ( /\ req.method = "POST"
       /\ \/ ~env.WORKIZ_API_TOKEN
          \/ ~env.SPREADSHEET_ID
          \/ ~env.GOOGLE_APPLICATION_CREDENTIALS ) =>
       /\ pc \in {"start", "done"}
       /\ pc = "done" => res.status = 500
       /\ log = <<>>

\* C9's case: a POST answered 500 with one variable unset and two set.
C9_Witness ==
  /\ pc = "done"
  /\ req.method = "POST"
  /\ env.WORKIZ_API_TOKEN
  /\ env.GOOGLE_APPLICATION_CREDENTIALS
  /\ ~env.SPREADSHEET_ID
  /\ res.status = 500
  /\ log = <<>>

\* C10 (batching): in a run of batchSyncJobsWithSheet with no failed write,
\* there is at most one values.batchUpdate call, carrying all the updates,
\* and at most one values.append call, carrying all the new rows; once the
\* run has returned there is a batchUpdate call exactly if there are
\* updates and an append call exactly if there are new rows.
C10_Batching ==
  (pc \in {"batchUpdate", "append", "synced"} /\ NoWriteFailed) =>
    /\ Cardinality(Calls("batchUpdate")) <= (IF Len(updates) > 0 THEN 1 ELSE 0)
    /\ Cardinality(Calls("append")) <= (IF Len(appends) > 0 THEN 1 ELSE 0)
    /\ \A k \in Calls("batchUpdate") : log[k].n = Len(updates)
    /\ \A k \in Calls("append") : log[k].n = Len(appends)
    /\ pc = "synced" =>
         /\ Cardinality(Calls("batchUpdate")) = (IF Len(updates) > 0 THEN 1 ELSE 0)
         /\ Cardinality(Calls("append")) = (IF Len(appends) > 0 THEN 1 ELSE 0)

\* C10's case: two updates sent in one call, and nothing to append.
C10_Witness ==
  /\ pc = "synced"
  /\ NoWriteFailed
  /\ Len(updates) = 2
  /\ Len(appends) = 0
  /\ Cardinality(Calls("batchUpdate")) = 1
  /\ Calls("append") = {}

\* C11 (fetch pagination), as claimed: what the fetch step hands on is
\* every record the remote holds for the query (those passing the source
\* filter, in the detailed variant), however many there are, and once the
\* sync has returned each of them that has a UUID and is in the date window
\* has its row in the sheet.
C11_Pagination ==
  /\ (\E k \in Calls("fetch") : log[k].ok) =>
       jobs =
         IF variant = "detailed" /\ req.jobSources.isArray
            /\ Len(req.jobSources.elems) > 0
           THEN SelectSeq(remote, Requested)
           ELSE remote
  /\ (pc = "synced" /\ variant = "sync") =>
       \A i \in Keyed(remote) :
         (~Truthy(req.endDate) \/ InWindow(remote[i], req.startDate, req.endDate))
           => InColumnA(sheet, remote[i].UUID)

\* The request is in batchSyncJobsWithSheet or ended in it: the sheet has
\* been read once.
InBatchSync == Cardinality({k \in Calls("get") : log[k].ok}) = 1
\* The last call made was a write that failed.
LastCallFailed(api) ==
  /\ Len(log) > 0
  /\ log[Len(log)].api = api
  /\ ~log[Len(log)].ok

\* C12 (write ordering): an append call is made only after a batch update
\* that succeeded, when there are updates; a request that ends on a failed
\* batch update has made no append and left the sheet as read; a request
\* that ends on a failed append after the update succeeded is answered 500
\* with the updated rows in place and no row added.
C12_WriteOrdering ==
  /\ \A k \in Calls("append") :
       Len(updates) > 0 =>
         \E j \in Calls("batchUpdate") : j < k /\ log[j].ok
  /\ (InBatchSync /\ pc = "done" /\ LastCallFailed("batchUpdate")) =>
       /\ res.status = 500
       /\ Calls("append") = {}
       /\ sheet = snapshot
  /\ (InBatchSync /\ pc = "done" /\ LastCallFailed("append")) =>
       /\ res.status = 500
       /\ Len(sheet) = Len(snapshot)
       /\ \A i \in Keyed(filteredJobs) :
            InColumnA(snapshot, filteredJobs[i].UUID) =>
              \E r \in 1..Len(sheet) :
                sheet[r] = formatJobData(LastWith(filteredJobs,
                                                  filteredJobs[i].UUID))

\* C12's case: the batch update went through, the append then failed for
\* good, and the handler answered 500.
C12_Witness ==
  /\ InBatchSync
  /\ pc = "done"
  /\ LastCallFailed("append")
  /\ Len(updates) > 0
  /\ \E j \in Calls("batchUpdate") : log[j].ok
  /\ sheet # snapshot

\* The UUID is that of some job passed to the sync.
IsJobKey(key) == \E i \in Keyed(filteredJobs) : filteredJobs[i].UUID = key

C14_NoWorkOnEmptyFetch ==
  ((\E k \in Calls("fetch") : log[k].ok) /\ Len(jobs) = 0) =>
    /\ pc = "done"
    /\ res = Response(200, "No jobs found.")
    /\ \A k \in 1..Len(log) : log[k].api \in {"auth", "fetch"}

\* C14's case: the remote holds jobs, none of a requested source, and the
\* handler has answered.
C14_Witness ==
  /\ \E k \in Calls("fetch") : log[k].ok
  /\ Len(jobs) = 0
  /\ Len(remote) > 0
  /\ res.status = 200

\* C15 (reported count), as claimed: a 200 answer that carries jobsSynced
\* carries the number of update ranges plus the number of rows appended by
\* the reconcile step of the run.
C15_ReportedCount ==
  (pc = "done" /\ res.status = 200 /\ res.jobsSynced >= 0) =>
    res.jobsSynced = Len(updates) + Len(appends)

\* C16 (idempotence): when the batch sync of a second request for the same
\* remote job list has returned, it has appended no row and the sheet has as
\* many rows as the first request left; where the batch sync is the only
\* writer (api/sync.js) the sheet is equal to the one the first request left.
C16_Idempotence ==
  (run = 2 /\ pc = "synced") =>
    /\ Len(appends) = 0
    /\ Len(sheet) = Len(firstRun.sheet)
    /\ variant = "sync" => sheet = firstRun.sheet

\* C16's case: the first request appended rows, and the batch sync of the
\* second has returned after updating rows.
C16_Witness ==
  /\ run = 2
  /\ pc = "synced"
  /\ variant = "sync"
  /\ Len(firstRun.appends) > 0
  /\ Len(updates) > 0

\* The jobs that carry a UUID carry pairwise distinct ones.
DistinctJobKeys(jobList) ==
  \A i, j \in Keyed(jobList) : i # j => jobList[i].UUID # jobList[j].UUID

\* C17 (batch versus sequential reconcile): for a snapshot with pairwise
\* distinct non-empty keys and jobs with pairwise distinct UUIDs, when
\* batchSyncJobsWithSheet has returned the sheet holds the same rows in the
\* same order as syncJobsWithSheet leaves for the same snapshot and jobs.
C17_BatchVersusSequential ==
  (pc = "synced" /\ sequential.ran
     /\ UniqueKeys(snapshot) /\ DistinctJobKeys(filteredJobs)) =>
    sheet = sequential.sheet

\* C17's case: both reconciles have run on a snapshot and a job list with
\* distinct keys, with a row to update and a row to append.
C17_Witness ==
  /\ pc = "synced"
  /\ sequential.ran
  /\ NoWriteFailed
  /\ UniqueKeys(snapshot)
  /\ DistinctJobKeys(filteredJobs)
  /\ Len(updates) > 0
  /\ Len(appends) > 0
  /\ sheet # snapshot

====
